---- MODULE Spec2Model ----
(***************************************************************************)
(* The chat page's streamed-response decoder, citation-marker rewrite and  *)
(* voice input, and the upload page (src/src/app/page.tsx).                *)
(*                                                                         *)
(* Two versions of the chat page are in the repository:                    *)
(*   "page"  src/src/app/chat/page.tsx                                     *)
(*   "part"  src/unnamed/part_000                                          *)
(* The variable impl says which one a behaviour runs.                      *)
(*                                                                         *)
(* Text is a sequence of characters, each character a one-character        *)
(* string; the response body is a sequence of bytes.  An ASCII byte is     *)
(* written as its character; "C3" and "A9" are the two bytes of the UTF-8  *)
(* encoding of U+00E9, written "U+00E9" once decoded.                      *)
(***************************************************************************)
EXTENDS Integers, Sequences, FiniteSets, TLC

\* ------------------------------------------------------------ JS values

Undefined == [t |-> "undefined"]
Null == [t |-> "null"]
JStr(cs) == [t |-> "str", v |-> cs]
JNum(n) == [t |-> "num", v |-> n]
JBool(b) == [t |-> "bool", v |-> b]
JArr(vs) == [t |-> "arr", v |-> vs]
\* an object is the sequence of its <<key, value>> members, in source order
JObj(ms) == [t |-> "obj", v |-> ms]

\* JavaScript truthiness, as `if (json.data)` tests it
Truthy(x) ==
  CASE x.t = "undefined" -> FALSE
    [] x.t = "null" -> FALSE
    [] x.t = "bool" -> x.v
    [] x.t = "num" -> x.v # 0
    [] x.t = "str" -> x.v # <<>>
    [] OTHER -> TRUE

RECURSIVE Lookup(_, _, _)
\* the value of the last member of ms[1..k] named key, or undefined
Lookup(ms, k, key) ==
  IF k = 0 THEN Undefined
  ELSE IF ms[k][1] = key THEN ms[k][2]
  ELSE Lookup(ms, k - 1, key)

\* x.key for a non-null x: a property of an object, undefined on a
\* number, a boolean, a string or an array (for the keys used here)
Prop(x, key) == IF x.t = "obj" THEN Lookup(x.v, Len(x.v), key) ELSE Undefined

\* x.key throws a TypeError when x is null
PropThrows(x) == x.t \in {"null", "undefined"}

\* ------------------------------------------------------------ JSON.parse

Quote == "\""
Newline == "\n"
JsonWs == {" ", "\t", "\r", "\n"}
DigitChars == <<"0", "1", "2", "3", "4", "5", "6", "7", "8", "9">>
Digits == {DigitChars[k] : k \in 1..10}
DigitVal(c) == (CHOOSE k \in 1..10 : DigitChars[k] = c) - 1

ParseFail == [ok |-> FALSE, v |-> Undefined, i |-> 0]
ParseOk(val, next) == [ok |-> TRUE, v |-> val, i |-> next]

RECURSIVE SkipWs(_, _)
SkipWs(s, i) == IF i <= Len(s) /\ s[i] \in JsonWs THEN SkipWs(s, i + 1) ELSE i

\* s has the characters of lit from position i on
HasPrefix(s, i, lit) ==
  /\ i + Len(lit) - 1 <= Len(s)
  /\ \A k \in 1..Len(lit) : s[i + k - 1] = lit[k]

RECURSIVE ParseStringBody(_, _, _)
\* the characters of a string literal after its opening quote; escapes
\* (a backslash) are not in the modelled alphabet
ParseStringBody(s, i, acc) ==
  IF i > Len(s) THEN ParseFail
  ELSE IF s[i] = Quote THEN ParseOk(acc, i + 1)
  ELSE IF s[i] = "\\" THEN ParseFail
  ELSE ParseStringBody(s, i + 1, Append(acc, s[i]))

RECURSIVE ParseDigits(_, _, _)
ParseDigits(s, i, acc) ==
  IF i <= Len(s) /\ s[i] \in Digits
  THEN ParseDigits(s, i + 1, acc * 10 + DigitVal(s[i]))
  ELSE ParseOk(JNum(acc), i)

\* a non-negative integer literal: 0, or a digit 1-9 and more digits
ParseNumber(s, i) ==
  IF s[i] = "0"
  THEN (IF i + 1 <= Len(s) /\ s[i + 1] \in Digits THEN ParseFail
        ELSE ParseOk(JNum(0), i + 1))
  ELSE ParseDigits(s, i, 0)

RECURSIVE ParseValue(_, _)
RECURSIVE ParseElements(_, _, _)
RECURSIVE ParseMembers(_, _, _)

\* the elements of an array after "[" or after a ","
ParseElements(s, i, acc) ==
  LET r == ParseValue(s, i) IN
  IF ~r.ok THEN ParseFail
  ELSE LET j == SkipWs(s, r.i) IN
       IF j > Len(s) THEN ParseFail
       ELSE IF s[j] = "]" THEN ParseOk(JArr(Append(acc, r.v)), j + 1)
       ELSE IF s[j] = "," THEN ParseElements(s, j + 1, Append(acc, r.v))
       ELSE ParseFail

\* the members of an object after "{" or after a ","
ParseMembers(s, i, acc) ==
  LET j == SkipWs(s, i) IN
  IF j > Len(s) \/ s[j] # Quote THEN ParseFail
  ELSE LET k == ParseStringBody(s, j + 1, <<>>) IN
       IF ~k.ok THEN ParseFail
       ELSE LET c == SkipWs(s, k.i) IN
            IF c > Len(s) \/ s[c] # ":" THEN ParseFail
            ELSE LET r == ParseValue(s, c + 1) IN
                 IF ~r.ok THEN ParseFail
                 ELSE LET e == SkipWs(s, r.i) IN
                      IF e > Len(s) THEN ParseFail
                      ELSE IF s[e] = "}"
                      THEN ParseOk(JObj(Append(acc, <<k.v, r.v>>)), e + 1)
                      ELSE IF s[e] = ","
                      THEN ParseMembers(s, e + 1, Append(acc, <<k.v, r.v>>))
                      ELSE ParseFail

ParseValue(s, i) ==
  LET j == SkipWs(s, i) IN
  IF j > Len(s) THEN ParseFail
  ELSE IF s[j] = Quote
  THEN LET r == ParseStringBody(s, j + 1, <<>>) IN
       IF r.ok THEN ParseOk(JStr(r.v), r.i) ELSE ParseFail
  ELSE IF s[j] \in Digits THEN ParseNumber(s, j)
  ELSE IF HasPrefix(s, j, <<"t", "r", "u", "e">>) THEN ParseOk(JBool(TRUE), j + 4)
  ELSE IF HasPrefix(s, j, <<"f", "a", "l", "s", "e">>) THEN ParseOk(JBool(FALSE), j + 5)
  ELSE IF HasPrefix(s, j, <<"n", "u", "l", "l">>) THEN ParseOk(Null, j + 4)
  ELSE IF s[j] = "["
  THEN LET k == SkipWs(s, j + 1) IN
       IF k <= Len(s) /\ s[k] = "]" THEN ParseOk(JArr(<<>>), k + 1)
       ELSE ParseElements(s, j + 1, <<>>)
  ELSE IF s[j] = "{"
  THEN LET k == SkipWs(s, j + 1) IN
       IF k <= Len(s) /\ s[k] = "}" THEN ParseOk(JObj(<<>>), k + 1)
       ELSE ParseMembers(s, j + 1, <<>>)
  ELSE ParseFail

\* JSON.parse(line): [ok |-> TRUE, v |-> the value], or ok = FALSE where
\* JSON.parse throws a SyntaxError
JSONparse(line) ==
  LET r == ParseValue(line, 1) IN
  IF r.ok /\ SkipWs(line, r.i) = Len(line) + 1
  THEN [ok |-> TRUE, v |-> r.v]
  ELSE [ok |-> FALSE, v |-> Undefined]

\* ------------------------------------------------------------ TextDecoder

RECURSIVE Flatten(_, _, _)
\* the concatenation of the sequences ss[lo..hi]
Flatten(ss, lo, hi) ==
  IF lo > hi THEN <<>>
  ELSE IF lo = hi THEN ss[lo]
  ELSE LET mid == (lo + hi) \div 2 IN
       Flatten(ss, lo, mid) \o Flatten(ss, mid + 1, hi)

\* the UTF-8 decoder's step on byte b: held says that the lead byte C3 is
\* held back, waiting for its continuation byte.  A byte that cannot continue
\* or start a character decodes to U+FFFD; a byte that ends a broken
\* sequence is then decoded on its own.
DecodeByte(held, b) ==
  IF held
  THEN (IF b = "A9" THEN <<"U+00E9">>
        ELSE IF b = "C3" THEN <<"U+FFFD">>
        ELSE <<"U+FFFD", b>>)
  ELSE (IF b = "C3" THEN <<>>
        ELSE IF b = "A9" THEN <<"U+FFFD">>
        ELSE <<b>>)

\* Utf8DecodeNoStream: decoder.decode(value) without { stream: true }: a lead
\* byte at the end of a chunk is decoded to U+FFFD and nothing is held
Utf8DecodeNoStream(bs, lead) ==
  LET held(i) == i > 1 /\ bs[i - 1] = "C3"
      last == Len(bs) > 0 /\ bs[Len(bs)] = "C3" IN
  [out |-> Flatten([i \in 1..Len(bs) |-> DecodeByte(held(i), bs[i])], 1, Len(bs))
             \o (IF last THEN <<"U+FFFD">> ELSE <<>>),
   lead |-> FALSE]

\* decoder.decode(value, { stream: true }): lead is the decoder's state
\* before the chunk bs; a lead byte at the end of the chunk stays held for
\* the next chunk.  The byte before byte i is held exactly if it is C3.
Utf8Decode(bs, lead) ==
  LET held(i) == IF i = 1 THEN lead ELSE bs[i - 1] = "C3" IN
  [out |-> Flatten([i \in 1..Len(bs) |-> DecodeByte(held(i), bs[i])], 1, Len(bs)),
   lead |-> IF Len(bs) = 0 THEN lead ELSE bs[Len(bs)] = "C3"]

\* the collaborator's encoding of a text into the bytes of the body
Utf8Encode(cs) ==
  Flatten([i \in 1..Len(cs) |->
             IF cs[i] = "U+00E9" THEN <<"C3", "A9">> ELSE <<cs[i]>>], 1, Len(cs))

\* ------------------------------------------------------------ framing

\* buffer.split("\n"): the segments between newlines, one more than newlines
Split(s) ==
  LET nls == {i \in 1..Len(s) : s[i] = Newline}
      n == Cardinality(nls)
      \* the position of the k-th newline; 0 for k = 0, Len(s) + 1 past the last
      at(k) == IF k = 0 THEN 0
               ELSE IF k > n THEN Len(s) + 1
               ELSE CHOOSE i \in nls : Cardinality({j \in nls : j < i}) = k - 1
  IN [k \in 1..(n + 1) |-> SubSeq(s, at(k - 1) + 1, at(k) - 1)]

\* RemainderLost: the last segment is thrown away instead of kept
RemainderLost(segs) == <<>>

\* buffer = lines.pop() || "": the last segment stays in the buffer
Remainder(segs) == segs[Len(segs)]

\* lines after lines.pop(): every segment but the last
CompleteLines(segs) == SubSeq(segs, 1, Len(segs) - 1)

\* line.trim() === ""
TrimWs == {" ", "\t", "\r", "\n"}
IsBlank(line) == \A k \in 1..Len(line) : line[k] \in TrimWs

\* ------------------------------------------------------------ citations

KeyData == <<"d", "a", "t", "a">>
KeyChunkId == <<"c", "h", "u", "n", "k", "_", "i", "d">>
KeyFilename == <<"f", "i", "l", "e", "n", "a", "m", "e">>
KeyPageNumber == <<"p", "a", "g", "e", "_", "n", "u", "m", "b", "e", "r">>
KeyChunkText == <<"c", "h", "u", "n", "k", "_", "t", "e", "x", "t">>
KeyScore == <<"s", "c", "o", "r", "e">>

\* (c: ApiCitation): Citation => ({ id: c.chunk_id, ... })
MapCitation(c) ==
  [id |-> Prop(c, KeyChunkId),
   documentName |-> Prop(c, KeyFilename),
   pageNumber |-> Prop(c, KeyPageNumber),
   snippet |-> Prop(c, KeyChunkText),
   relevanceScore |-> Prop(c, KeyScore)]

\* json.data.map(...): throws a TypeError on a null element
MapThrows(arr) == \E k \in 1..Len(arr) : PropThrows(arr[k])
MapCitations(arr) == [k \in 1..Len(arr) |-> MapCitation(arr[k])]

\* ------------------------------------------------------------ state

VARIABLES
  impl,          \* "page" or "part": the version of the chat page that runs
  pc,            \* where handleSendMessage stands: "idle", "fetch" (awaiting
                 \* fetch), "errtext" (awaiting response.text()), "read"
                 \* (awaiting reader.read()), "done" (try block completed),
                 \* "rejected" (error message shown for a response that is
                 \* not usable), "caught" (catch block ran)
  inputText,     \* useState inputText
  messages,      \* useState messages
  isTyping,      \* useState isTyping
  now,           \* Date.now()
  frames,        \* the lines the collaborator sends, by name (see LineOf)
  terminated,    \* whether the last line of the body ends with a newline
  body,          \* the bytes of the response body
  pos,           \* how many bytes of the body reader.read() has delivered
  utf8Lead,      \* TextDecoder: a lead byte waits for its continuation byte
  buffer,        \* let buffer
  responseText,  \* let responseText
  citations,     \* let citations
  botMessageId,  \* const botMessageId
  events,        \* history: the text deltas and citation sets decoded so far
  parsed,        \* history: the lines handed to JSON.parse so far
  errors,        \* history: number of "Error parsing JSON line" logs
  view,          \* what the last render shows of each message
  hoveredCitation, \* useState hoveredCitation
  reqs,          \* the calls of handleSendMessage when several may be in flight
  entered,       \* the markers whose onMouseEnter ran and whose onMouseLeave
                 \* is still to run, each as <<message, element>>
  isRecording,   \* useState isRecording
  mediaRecorder, \* useState mediaRecorder: 0 for null, or the call that made it
  websocket,     \* useState websocket: 0 for null, or the call that made it
  recordings,    \* the calls of startRecording: the stream, recorder and
                 \* socket each one made, and its `let finalTranscript`
  uploadedFiles, \* upload page: useState uploadedFiles
  uploads        \* upload page: the upload callbacks of handleFiles

\* the state of the voice input of the chat page
voiceVars == <<isRecording, mediaRecorder, websocket, recordings>>

\* the state of the upload page
uploadVars == <<uploadedFiles, uploads>>

vars == <<impl, pc, inputText, messages, isTyping, now, frames, terminated,
          body, pos, utf8Lead, buffer, responseText, citations, botMessageId,
          events, parsed, errors, view, hoveredCitation, reqs, entered,
          voiceVars, uploadVars>>

\* the state that Spec leaves alone: the rendering, the concurrent calls, the
\* voice input and the upload page
renderVars == <<view, hoveredCitation, reqs, entered, voiceVars, uploadVars>>

\* the voice input and the upload page as they are after construction
InitOther ==
  /\ entered = {}
  /\ isRecording = FALSE
  /\ mediaRecorder = 0
  /\ websocket = 0
  /\ recordings = <<>>
  /\ uploadedFiles = <<>>
  /\ uploads = <<>>

\* an optional timestamp: <<>> when absent, <<t>> when set
NoTime == <<>>

GreetingText ==
  IF impl = "page"
  THEN <<"Hello! I can help you analyze your uploaded documents with detailed citations. ...">>
  ELSE <<"Hello! I can help you analyze your uploaded documents with detailed citations or search the web for information. ...">>

Message(id, text, sender, timestamp, cits) ==
  [id |-> id, text |-> text, sender |-> sender, timestamp |-> timestamp,
   citations |-> cits]

\* prev.map((msg) => msg.id === botMessageId ? { ...msg, text } : msg)
SetText(msgs, id, text) ==
  [k \in 1..Len(msgs) |->
     IF msgs[k].id = id THEN [msgs[k] EXCEPT !.text = text] ELSE msgs[k]]

\* prev.map((msg) => msg.id === botMessageId ? { ...msg, citations } : msg)
SetCitations(msgs, id, cits) ==
  [k \in 1..Len(msgs) |->
     IF msgs[k].id = id THEN [msgs[k] EXCEPT !.citations = cits] ELSE msgs[k]]

\* prev.map((msg) => msg.id === botMessageId ? { ...msg, timestamp } : msg)
SetTimestamp(msgs, id, t) ==
  [k \in 1..Len(msgs) |->
     IF msgs[k].id = id THEN [msgs[k] EXCEPT !.timestamp = <<t>>] ELSE msgs[k]]

\* ------------------------------------------------------------ the line loop

\* typeof json.data === "string"
IsString(x) == x.t = "str"

\* IsArrayByTypeof: typeof x === "object" in place of Array.isArray(x)
IsArrayByTypeof(x) == x.t \in {"arr", "obj"}

\* Array.isArray(json.data)
IsArray(x) == x.t = "arr"

\* OverwriteDelta: responseText = json.data
OverwriteDelta(text, delta) == delta

\* responseText += json.data
AppendDelta(text, delta) == text \o delta

\* MergeCitations: the new citations are added to the old ones
MergeCitations(old, new) == old \o new

\* citations = json.data.map(...)
ReplaceCitations(old, new) == new

\* Rethrown: the exception leaves the loop instead of being caught
Rethrown(st) == [st EXCEPT !.thrown = TRUE]

\* catch (e) { console.error("Error parsing JSON line:", line); }
Caught(st) == [st EXCEPT !.errors = @ + 1]

\* the setMessages call after a citation set: only the "page" version has one
CitationsShown(st, cits) ==
  IF impl = "page" THEN SetCitations(st.messages, st.id, cits)
  ELSE st.messages

\* one pass of the body of `for (const line of lines)`
ProcessLine(st, line) ==
  IF IsBlank(line) THEN st
  ELSE
    LET p == JSONparse(line)
        st1 == [st EXCEPT !.parsed = Append(@, line)]
    IN
    IF ~p.ok \/ PropThrows(p.v) THEN Caught(st1)
    ELSE
      LET data == Prop(p.v, KeyData) IN
      IF ~Truthy(data) THEN st1
      ELSE IF IsString(data)
      THEN LET text == AppendDelta(st.responseText, data.v) IN
           [st1 EXCEPT !.responseText = text,
                       !.messages = SetText(@, st.id, text),
                       !.events = Append(@, [kind |-> "TextDelta", value |-> data.v])]
      ELSE IF IsArray(data)
      THEN IF MapThrows(data.v) THEN Caught(st1)
           ELSE LET cits == ReplaceCitations(st.citations, MapCitations(data.v)) IN
                [st1 EXCEPT !.citations = cits,
                            !.messages = CitationsShown(st, cits),
                            !.events = Append(@, [kind |-> "CitationSet", value |-> cits])]
      ELSE st1

RECURSIVE ProcessLines(_, _, _)
\* for (const line of lines) { ... }: an exception that is not caught ends it
ProcessLines(st, lines, k) ==
  IF k > Len(lines) \/ st.thrown THEN st
  ELSE ProcessLines(ProcessLine(st, lines[k]), lines, k + 1)

\* one pass of the body of `while (true)` for a chunk that is not the end
Feed(st, chunk) ==
  LET dec == Utf8Decode(chunk, st.lead)
      segs == Split(st.buffer \o dec.out)
      st1 == [st EXCEPT !.lead = dec.lead, !.buffer = Remainder(segs)]
  IN ProcessLines(st1, CompleteLines(segs), 1)

\* the handler's locals and the message list, as Feed reads and writes them
DecoderState ==
  [lead |-> utf8Lead, buffer |-> buffer, responseText |-> responseText,
   citations |-> citations, messages |-> messages, events |-> events,
   parsed |-> parsed, errors |-> errors, thrown |-> FALSE,
   id |-> botMessageId]

\* the locals as declared: let buffer = "", responseText = "", citations = []
FreshDecoder(msgs) ==
  [lead |-> FALSE, buffer |-> <<>>, responseText |-> <<>>, citations |-> <<>>,
   messages |-> msgs, events |-> <<>>, parsed |-> <<>>, errors |-> 0,
   thrown |-> FALSE, id |-> botMessageId]

\* ------------------------------------------------------------ inputs

\* the lines a response is made of, each under a name
StrLit(cs) == <<Quote>> \o cs \o <<Quote>>
Member(key, val) == StrLit(key) \o <<":">> \o val
DataLine(val) == <<"{">> \o Member(KeyData, val) \o <<"}">>
RecQ == <<"{">> \o Member(KeyChunkId, StrLit(<<"q">>)) \o <<"}">>
RecP == <<"{">> \o Member(KeyChunkId, StrLit(<<"p">>)) \o <<"}">>
RecFull ==
  <<"{">> \o Member(KeyChunkId, StrLit(<<"r">>)) \o <<",">>
          \o Member(<<"d", "o", "c", "u", "m", "e", "n", "t", "_", "i", "d">>, StrLit(<<"d">>)) \o <<",">>
          \o Member(KeyPageNumber, <<"2">>) \o <<",">>
          \o Member(KeyFilename, StrLit(<<"f">>)) \o <<",">>
          \o Member(KeyScore, <<"9">>) \o <<",">>
          \o Member(KeyChunkText, StrLit(<<"s">>)) \o <<"}">>

LineOf(name) ==
  CASE name = "TextA" -> DataLine(StrLit(<<"a">>))
    [] name = "CitQ" -> DataLine(<<"[">> \o RecQ \o <<"]">>)
    [] name = "TextE" -> DataLine(StrLit(<<"U+00E9">>))
    [] name = "CitPQ" -> DataLine(<<"[">> \o RecP \o <<",">> \o RecQ \o <<"]">>)
    [] name = "CitFull" -> DataLine(<<"[">> \o RecFull \o <<"]">>)
    [] name = "CitEmpty" -> DataLine(<<"[", "]">>)
    [] name = "CitNull" -> DataLine(<<"[", "n", "u", "l", "l", "]">>)
    [] name = "EmptyStr" -> DataLine(StrLit(<<>>))
    [] name = "Num" -> DataLine(<<"5">>)
    [] name = "True" -> DataLine(<<"t", "r", "u", "e">>)
    [] name = "NullData" -> DataLine(<<"n", "u", "l", "l">>)
    [] name = "ObjData" -> DataLine(<<"{", "}">>)
    [] name = "NoData" -> <<"{", "}">>
    [] name = "JsonNull" -> <<"n", "u", "l", "l">>
    [] name = "NotJson" -> <<"n", "o", "t", "-", "j", "s", "o", "n">>
    [] name = "Cut" -> <<"{", Quote, "d", "a", "t", "a", Quote, ":", Quote, "a">>
    [] name = "Blank" -> <<>>

\* the lines any number of which a response may hold
CoreLines == {"TextA", "CitQ"}
\* the lines of which a response holds at most one
RareLines == {"TextE", "CitPQ", "CitFull", "CitEmpty", "CitNull", "EmptyStr", "Num",
              "True", "NullData", "ObjData", "NoData", "JsonNull", "NotJson",
              "Cut", "Blank"}

MaxFrames == 2
MaxChunk == 3

FrameSeqs ==
  UNION {{f \in [1..n -> CoreLines \cup RareLines] :
            Cardinality({k \in 1..n : f[k] \in RareLines}) <= 1} : n \in 0..MaxFrames}

RECURSIVE BodyText(_, _, _)
\* the text of a body: the lines fs[k..], each followed by a newline, the
\* last one only if term
BodyText(fs, k, term) ==
  IF k > Len(fs) THEN <<>>
  ELSE LineOf(fs[k]) \o (IF k < Len(fs) \/ term THEN <<Newline>> ELSE <<>>)
       \o BodyText(fs, k + 1, term)

BodyOf(fs, term) == Utf8Encode(BodyText(fs, 1, term))

\* what the user may type
Queries == {<<"h", "i">>, <<" ">>}
\* what response.text() may give for a response that is not OK
ErrorTexts == {<<>>, <<"e">>}

\* ------------------------------------------------------------ handleSendMessage

\* onChange={(e) => setInputText(e.target.value)}
Type(q) ==
  /\ pc = "idle"
  /\ inputText # q
  /\ inputText' = q
  /\ UNCHANGED <<impl, pc, messages, isTyping, now, frames, terminated, body, pos,
                 utf8Lead, buffer, responseText, citations, botMessageId,
                 events, parsed, errors,
                 renderVars>>

\* handleSendMessage up to `await fetch(...)`
Send ==
  /\ pc = "idle"
  /\ ~IsBlank(inputText)
  /\ messages' = Append(messages, Message(now, inputText, "user", <<now>>, <<>>))
  /\ inputText' = <<>>
  /\ isTyping' = TRUE
  /\ pc' = "fetch"
  /\ UNCHANGED <<impl, now, frames, terminated, body, pos, utf8Lead, buffer,
                 responseText, citations, botMessageId, events, parsed, errors,
                 renderVars>>

\* the text of the message of the catch block
FallbackText ==
  IF impl = "page"
  THEN <<"Sorry, I am unable to connect to the server. Please check if the server is running and try again.">>
  ELSE <<"Sorry, I am unable to connect to the server. Please check if the server is running and try again. (docs search)">>

\* const botMessage = { id: (Date.now() + 1).toString(), text, sender: "bot",
\* timestamp: new Date() } of the catch block
FallbackMessage == Message(now + 1, FallbackText, "bot", <<now>>, <<>>)

\* ErrorMessageGeneric: the message does not quote the response
ErrorMessageGeneric(e) ==
  Message(now + 1, <<"Sorry, I encountered an error.">>, "bot", <<now>>, <<>>)

\* the message for a response that is not usable, whose text is e
ErrorMessage(e) ==
  Message(now + 1,
          IF impl = "page"
          THEN <<"Sorry, I encountered an error. ">> \o e
          ELSE <<"Error: ">> \o
               (IF e # <<>> THEN e ELSE <<"Failed to get response from server">>),
          "bot", <<now>>, <<>>)

\* CatchKeepsTyping: the catch block without the finally block
CatchKeepsTyping ==
  /\ messages' = Append(messages, FallbackMessage)
  /\ pc' = "caught"
  /\ UNCHANGED isTyping

\* catch (error) { ... } finally { setIsTyping(false) }
Catch ==
  /\ messages' = Append(messages, FallbackMessage)
  /\ isTyping' = FALSE
  /\ pc' = "caught"

\* fetch rejects
FetchFail ==
  /\ pc = "fetch"
  /\ Catch
  /\ UNCHANGED <<impl, inputText, now, frames, terminated, body, pos, utf8Lead,
                 buffer, responseText, citations, botMessageId, events, parsed,
                 errors,
                 renderVars>>

\* fetch resolves with a response that is not OK, whose body is the text e;
\* in "part" also with an OK response that has no body (e is empty): the
\* handler awaits response.text()
RespondNotUsable(e) ==
  /\ pc = "fetch"
  /\ body' = Utf8Encode(e)
  /\ pc' = "errtext"
  /\ UNCHANGED <<impl, inputText, messages, isTyping, now, frames, terminated,
                 pos, utf8Lead, buffer, responseText, citations,
                 botMessageId, events, parsed, errors,
                 renderVars>>

\* response.text() resolves with the body as text: the error message is
\* appended
ErrorText ==
  /\ pc = "errtext"
  /\ messages' = Append(messages, ErrorMessage(Utf8Decode(body, FALSE).out))
  /\ isTyping' = FALSE
  /\ pc' = "rejected"
  /\ UNCHANGED <<impl, inputText, now, frames, terminated, body, pos, utf8Lead,
                 buffer, responseText, citations, botMessageId, events, parsed,
                 errors,
                 renderVars>>

\* response.text() rejects
ErrorTextFail ==
  /\ pc = "errtext"
  /\ Catch
  /\ UNCHANGED <<impl, inputText, now, frames, terminated, body, pos, utf8Lead,
                 buffer, responseText, citations, botMessageId, events, parsed,
                 errors,
                 renderVars>>

\* "page": an OK response without a body: throw new Error(...)
RespondNoBody ==
  /\ pc = "fetch"
  /\ impl = "page"
  /\ Catch
  /\ UNCHANGED <<impl, inputText, now, frames, terminated, body, pos, utf8Lead,
                 buffer, responseText, citations, botMessageId, events, parsed,
                 errors,
                 renderVars>>

\* fetch resolves with an OK response that has a body: the empty bot message
\* is appended and the read loop starts
RespondOk(fs, term) ==
  /\ pc = "fetch"
  /\ frames' = fs
  /\ terminated' = term
  /\ body' = BodyOf(fs, term)
  /\ pos' = 0
  /\ utf8Lead' = FALSE
  /\ buffer' = <<>>
  /\ responseText' = <<>>
  /\ citations' = <<>>
  /\ botMessageId' = now + 1
  /\ messages' = Append(messages, Message(now + 1, <<>>, "bot", NoTime, <<>>))
  /\ pc' = "read"
  /\ UNCHANGED <<impl, inputText, isTyping, now, events, parsed, errors,
                 renderVars>>

\* reader.read() resolves with the next n bytes, which the loop body handles
ReadChunk(n) ==
  /\ pc = "read"
  /\ pos + n <= Len(body)
  /\ LET st == Feed(DecoderState, SubSeq(body, pos + 1, pos + n)) IN
       /\ utf8Lead' = st.lead
       /\ buffer' = st.buffer
       /\ responseText' = st.responseText
       /\ citations' = st.citations
       /\ events' = st.events
       /\ parsed' = st.parsed
       /\ errors' = st.errors
       /\ IF st.thrown
          THEN Catch
          ELSE /\ messages' = st.messages
               /\ pc' = "read"
               /\ UNCHANGED isTyping
  /\ pos' = pos + n
  /\ UNCHANGED <<impl, inputText, now, frames, terminated, body, botMessageId,
                 renderVars>>

\* the update of the message list at the end of the stream of the bot message
\* id, whose handler holds text and cits
CompletedAs(msgs, id, text, cits) ==
  IF impl = "page"
  THEN SetTimestamp(msgs, id, now)
  ELSE SetTimestamp(SetCitations(SetText(msgs, id, text), id, cits), id, now)

\* CompletedWithWarning: a residue left in the buffer is reported in the chat
CompletedWithWarning(msgs, buf) ==
  IF buf = <<>> THEN msgs
  ELSE Append(msgs, Message(now + 1, <<"The response was truncated.">>, "bot",
                            <<now>>, <<>>))

\* the message list as the end of the stream leaves it: nothing reads the
\* buffer.  "page": if (done) { setMessages(... timestamp ...) }; "part": the
\* update after the loop, with text, citations and timestamp
Completed(msgs, buf) == CompletedAs(msgs, botMessageId, responseText, citations)

\* ReadDoneKeepsTyping: the end of the stream without the finally block
ReadDoneKeepsTyping ==
  /\ pc = "read"
  /\ pos = Len(body)
  /\ messages' = Completed(messages, buffer)
  /\ pc' = "done"
  /\ UNCHANGED <<impl, inputText, isTyping, now, frames, terminated, body, pos,
                 utf8Lead, buffer, responseText, citations, botMessageId,
                 events, parsed, errors, renderVars>>

\* reader.read() resolves with done: the loop ends, the message is completed
ReadDone ==
  /\ pc = "read"
  /\ pos = Len(body)
  /\ messages' = Completed(messages, buffer)
  /\ isTyping' = FALSE
  /\ pc' = "done"
  /\ UNCHANGED <<impl, inputText, now, frames, terminated, body, pos, utf8Lead,
                 buffer, responseText, citations, botMessageId, events, parsed,
                 errors,
                 renderVars>>

\* reader.read() rejects
ReadFail ==
  /\ pc = "read"
  /\ Catch
  /\ UNCHANGED <<impl, inputText, now, frames, terminated, body, pos, utf8Lead,
                 buffer, responseText, citations, botMessageId, events, parsed,
                 errors,
                 renderVars>>

Init ==
  /\ impl \in {"page", "part"}
  /\ pc = "idle"
  /\ inputText = <<>>
  /\ now = 10
  /\ messages = <<Message(1, GreetingText, "bot", <<now>>, <<>>)>>
  /\ isTyping = FALSE
  /\ frames = <<>>
  /\ terminated = TRUE
  /\ body = <<>>
  /\ pos = 0
  /\ utf8Lead = FALSE
  /\ buffer = <<>>
  /\ responseText = <<>>
  /\ citations = <<>>
  /\ botMessageId = 0
  /\ events = <<>>
  /\ parsed = <<>>
  /\ errors = 0
  /\ view = <<>>
  /\ hoveredCitation = <<>>
  /\ reqs = <<>>
  /\ InitOther

\* the sizes of the next chunk: at most MaxChunk bytes, or all the rest
ChunkSizes == {n \in (1..MaxChunk) \cup {Len(body) - pos} : n >= 1}

Next ==
  \/ \E q \in Queries : Type(q)
  \/ Send
  \/ FetchFail
  \/ \E e \in ErrorTexts : RespondNotUsable(e)
  \/ ErrorText
  \/ ErrorTextFail
  \/ RespondNoBody
  \/ \E fs \in FrameSeqs, term \in BOOLEAN : RespondOk(fs, term)
  \/ \E n \in ChunkSizes : ReadChunk(n)
  \/ ReadDone
  \/ ReadFail

Spec == Init /\ [][Next]_vars

\* ------------------------------------------------------------ what the frames mean

\* the bot message of the request
Bot == messages[CHOOSE k \in 1..Len(messages) :
                  messages[k].id = botMessageId /\ messages[k].sender = "bot"]

Streaming == pc \in {"read", "done"}

\* the lines of the body that end with a newline
Delivered == IF terminated THEN frames ELSE SubSeq(frames, 1, Len(frames) - 1)

\* the value of `data` in a line whose data is a string
DataStringOf(name) ==
  CASE name = "TextA" -> <<"a">>
    [] name = "TextE" -> <<"U+00E9">>
    [] name = "EmptyStr" -> <<>>

StringLines == {"TextA", "TextE", "EmptyStr"}

Cit(id) ==
  [id |-> JStr(<<id>>), documentName |-> Undefined, pageNumber |-> Undefined,
   snippet |-> Undefined, relevanceScore |-> Undefined]

\* the citations of a line whose data is an array of citation records
CitationsOf(name) ==
  CASE name = "CitQ" -> <<Cit("q")>>
    [] name = "CitPQ" -> <<Cit("p"), Cit("q")>>
    [] name = "CitFull" ->
         <<[id |-> JStr(<<"r">>), documentName |-> JStr(<<"f">>),
            pageNumber |-> JNum(2), snippet |-> JStr(<<"s">>),
            relevanceScore |-> JNum(9)]>>
    [] name = "CitEmpty" -> <<>>

RecordArrayLines == {"CitQ", "CitPQ", "CitFull", "CitEmpty"}
\* lines that are not JSON
MalformedLines == {"NotJson", "Cut"}
\* lines that are JSON without a `data` that is a string or an array
OtherShapeLines == {"Num", "True", "NullData", "ObjData", "NoData", "JsonNull"}

RECURSIVE TextOf(_, _)
\* the concatenation of the string data of the lines fs[1..k]
TextOf(fs, k) ==
  IF k = 0 THEN <<>>
  ELSE TextOf(fs, k - 1) \o
       (IF fs[k] \in StringLines THEN DataStringOf(fs[k]) ELSE <<>>)

RECURSIVE LastCitationsOf(_, _)
\* the citations of the last line among fs[1..k] that holds citation records
LastCitationsOf(fs, k) ==
  IF k = 0 THEN <<>>
  ELSE IF fs[k] \in RecordArrayLines THEN CitationsOf(fs[k])
  ELSE LastCitationsOf(fs, k - 1)

\* the handler's run on the lines fs, all in one chunk, up to the end of the
\* stream: the decoder's state and the bot message
OneChunkRun(fs, term) ==
  LET start == FreshDecoder(<<Message(botMessageId, <<>>, "bot", NoTime, <<>>)>>)
      bytes == BodyOf(fs, term)
  IN IF bytes = <<>> THEN start ELSE Feed(start, bytes)

Without(fs, names) == SelectSeq(fs, LAMBDA f : f \notin names)

RECURSIVE TextDeltas(_, _)
\* the concatenation of the text deltas among es[1..k]
TextDeltas(es, k) ==
  IF k = 0 THEN <<>>
  ELSE TextDeltas(es, k - 1) \o
       (IF es[k].kind = "TextDelta" THEN es[k].value ELSE <<>>)

RECURSIVE LastCitationSet(_, _)
\* the last citation set among es[1..k], empty if there is none
LastCitationSet(es, k) ==
  IF k = 0 THEN <<>>
  ELSE IF es[k].kind = "CitationSet" THEN es[k].value
  ELSE LastCitationSet(es, k - 1)

\* ------------------------------------------------------------ claims

\* C1: split-invariance.  However the body is cut into chunks, when the
\* stream has ended the events applied, the handler's text and citations
\* and the bot message's text and citations are those of the run that
\* receives the whole body as one chunk.
C1_SplitInvariance ==
  pc = "done" =>
    LET one == OneChunkRun(frames, terminated) IN
    /\ events = one.events
    /\ responseText = one.responseText
    /\ citations = one.citations
    /\ Bot.text = one.responseText
    /\ Bot.citations = one.citations

\* C1 witness: a body of two frames, one with a two-byte character, has
\* been delivered in more than one chunk, one cut inside the character
C1_Witness ==
  /\ pc = "read"
  /\ frames = <<"CitQ", "TextE">>
  /\ utf8Lead
  /\ events # <<>>

\* C2: text deltas are appended.  When the stream has ended the bot
\* message's text is the concatenation, in order, of the string data of
\* the frames delivered.
C2_TextAppended ==
  pc = "done" =>
    /\ Bot.text = TextOf(Delivered, Len(Delivered))
    /\ responseText = Bot.text

\* C2 witness: two text frames gave a text of two characters
C2_Witness ==
  /\ pc = "done"
  /\ frames = <<"TextA", "TextE">>
  /\ terminated
  /\ Bot.text = <<"a", "U+00E9">>

\* C3: a frame that is not JSON is a per-frame error.  While and after the
\* stream is read no message is appended to the chat because of it, the
\* catch block is entered only when an await fails and never while a chunk
\* is handled, and when the stream has ended the events, the text and the
\* citations are those of the same body without the malformed frames.
C3_StateOk ==
  /\ Streaming => Len(messages) = 3
  /\ pc = "done" =>
       LET one == OneChunkRun(Without(Delivered, MalformedLines), TRUE) IN
       /\ events = one.events
       /\ Bot.text = one.responseText
       /\ Bot.citations = one.citations
       /\ errors >= Len(SelectSeq(Delivered, LAMBDA f : f \in MalformedLines))

C3_MalformedFrameDropped ==
  /\ []C3_StateOk
  /\ [][pc' = "caught" => pos' = pos]_vars

\* C3 witness: a malformed frame was logged and the valid frame after it
\* was applied
C3_Witness ==
  /\ pc = "done"
  /\ frames = <<"NotJson", "TextA">>
  /\ terminated
  /\ errors = 1
  /\ Bot.text = <<"a">>

\* C4: a citation set replaces the citations.  The handler's citations are
\* always those of its last citation set, and when the stream has ended the
\* bot message's citations are the mapping, element by element, of the last
\* frame delivered whose data is an array of citation records (empty if
\* there is none).
C4_CitationsReplaced ==
  /\ Streaming => citations = LastCitationSet(events, Len(events))
  /\ pc = "done" =>
       /\ Bot.citations = LastCitationsOf(Delivered, Len(Delivered))
       /\ citations = Bot.citations

\* C4 witness: a second citation set, of two citations, replaced the first
C4_Witness ==
  /\ pc = "done"
  /\ frames = <<"CitQ", "CitPQ">>
  /\ terminated
  /\ Len(Bot.citations) = 2
  /\ Bot.citations[1].id = JStr(<<"p">>)

\* C5: events are applied to the message in emission order.  While the
\* stream is read and after it, the bot message's text is the
\* concatenation of the text deltas emitted so far and its citations are
\* the last citation set emitted so far.
C5_AppliedInEmissionOrder ==
  Streaming =>
    /\ Bot.text = TextDeltas(events, Len(events))
    /\ Bot.citations = LastCitationSet(events, Len(events))

\* C6: partial-frame buffering.  After each chunk the buffer holds the text
\* received since the last newline and no newline, the lines handed to
\* JSON.parse are the non-blank lines received whole, each once, and every
\* event or error log comes from one of them.
C6_BufferIsPartialFrame ==
  Streaming =>
    LET nls == {i \in 1..pos : body[i] = Newline}
        last == IF nls = {} THEN 0 ELSE CHOOSE i \in nls : \A j \in nls : j <= i
        whole == SubSeq(frames, 1, Cardinality(nls))
    IN
    /\ buffer = Utf8Decode(SubSeq(body, last + 1, pos), FALSE).out
    /\ \A k \in 1..Len(buffer) : buffer[k] # Newline
    /\ parsed = SelectSeq([k \in 1..Len(whole) |-> LineOf(whole[k])],
                          LAMBDA l : ~IsBlank(l))
    /\ Len(events) + errors <= Len(parsed)

\* C6 witness: a frame cut in two is in the buffer in part, after a frame
\* that was parsed
C6_Witness ==
  /\ pc = "read"
  /\ frames = <<"TextA", "CitQ">>
  /\ Len(parsed) = 1
  /\ Len(buffer) > 3
  /\ pos < Len(body) - 3

\* C7: a residue at the end of the stream is discarded.  When the stream
\* has ended with a fragment in the buffer that is not a parseable frame,
\* the events, text and citations are those of the lines delivered whole,
\* no message was appended, the bot message has its timestamp and the
\* typing indicator is off.
C7_ResidueDiscarded ==
  (pc = "done" /\ buffer # <<>> /\ ~JSONparse(buffer).ok) =>
    LET one == OneChunkRun(Delivered, TRUE) IN
    /\ events = one.events
    /\ Bot.text = one.responseText
    /\ Bot.citations = one.citations
    /\ Len(messages) = 3
    /\ Bot.timestamp # NoTime
    /\ ~isTyping

\* C7 witness: the stream ended after a whole frame and a truncated one
C7_Witness ==
  /\ pc = "done"
  /\ frames = <<"TextA", "Cut">>
  /\ ~terminated
  /\ buffer = LineOf("Cut")
  /\ Bot.text = <<"a">>

\* C8: a JSON frame without a `data` that is a string or an array yields no
\* event.  When the stream has ended the events, the text and the citations
\* are those of the same body without such frames.
C8_OtherShapesIgnored ==
  pc = "done" =>
    LET one == OneChunkRun(Without(Delivered, OtherShapeLines), TRUE) IN
    /\ events = one.events
    /\ Bot.text = one.responseText
    /\ Bot.citations = one.citations

\* C8 witness: a frame whose data is an object came before a text frame
C8_Witness ==
  /\ pc = "done"
  /\ frames = <<"ObjData", "TextA">>
  /\ terminated
  /\ Bot.text = <<"a">>
  /\ Len(events) = 1

\* ------------------------------------------------------------ citation markup

RECURSIVE ToDigits(_)
\* `${i}`: the decimal digits of a number
ToDigits(n) ==
  IF n < 10 THEN <<DigitChars[n + 1]>>
  ELSE Append(ToDigits(n \div 10), DigitChars[(n % 10) + 1])

RECURSIVE ParseInt(_, _)
\* parseInt(ds, 10) of the digits ds[1..k]
ParseInt(ds, k) ==
  IF k = 0 THEN 0 ELSE ParseInt(ds, k - 1) * 10 + DigitVal(ds[k])

RECURSIVE DigitRun(_, _)
\* \d+ from position i: the number of digits there
DigitRun(s, i) ==
  IF i <= Len(s) /\ s[i] \in Digits THEN 1 + DigitRun(s, i + 1) ELSE 0

\* the length of the match of \[(\d+)\] at position i, with \.? after it if
\* period; 0 if there is no match at i
MatchAt(s, i, period) ==
  IF s[i] # "[" THEN 0
  ELSE LET d == DigitRun(s, i + 1)
           close == i + 1 + d IN
       IF d = 0 \/ close > Len(s) \/ s[close] # "]" THEN 0
       ELSE IF period /\ close < Len(s) /\ s[close + 1] = "." THEN d + 3
       ELSE d + 2

\* the pattern of the rewrite: /\[(\d+)\]/g in "page", /\[(\d+)\]\.?/g in "part"
RewriteTakesPeriod == impl = "part"

\* StuckInstance: the counter is not advanced
StuckInstance(i) == 1

\* i++
NextInstance(i) == i + 1

\* `<sup>${match}<!--${i}--></sup>`; each tag of the markup is one token
SupMarkup(match, i) ==
  <<"<sup>">> \o match \o <<"<!--">> \o ToDigits(i) \o <<"-->", "</sup>">>

RECURSIVE ReplaceFrom(_, _, _)
\* message.text.replace(pattern, (match) => ...) from position p on, i
\* matches having been replaced
ReplaceFrom(s, p, i) ==
  IF p > Len(s) THEN <<>>
  ELSE LET n == MatchAt(s, p, RewriteTakesPeriod) IN
       IF n = 0 THEN <<s[p]>> \o ReplaceFrom(s, p + 1, i)
       ELSE SupMarkup(SubSeq(s, p, p + n - 1), NextInstance(i))
            \o ReplaceFrom(s, p + n, NextInstance(i))

\* the text handed to ReactMarkdown
PrePass(text) == ReplaceFrom(text, 1, 0)

\* the first position from p on that holds tok
FirstAt(m, p, tok) ==
  CHOOSE q \in p..Len(m) : m[q] = tok /\ \A r \in p..(q - 1) : m[r] # tok

\* the character ` of a text
Backtick == "U+0060"

RECURSIVE TickRun(_, _)
\* the length of the run of backticks at position p
TickRun(m, p) ==
  IF p <= Len(m) /\ m[p] = Backtick THEN 1 + TickRun(m, p + 1) ELSE 0

\* the position of the run of n backticks that closes the code span opened
\* by the run of n backticks at p: the next run of that length; 0 if none
CodeSpanClose(m, p, n) ==
  LET qs == {q \in (p + n)..Len(m) :
               m[q] = Backtick /\ m[q - 1] # Backtick /\ TickRun(m, q) = n} IN
  IF qs = {} THEN 0 ELSE CHOOSE q \in qs : \A r \in qs : q <= r

RECURSIVE HtmlNodes(_, _)
\* ReactMarkdown with rehype-raw on the markup from position p on: a code
\* span shows its content as it is written, a sup element has its text and
\* its comment as children, any other character is a text node
HtmlNodes(m, p) ==
  IF p > Len(m) THEN <<>>
  ELSE IF m[p] = Backtick
  THEN LET n == TickRun(m, p)
           c == CodeSpanClose(m, p, n) IN
       IF c = 0
       THEN [k \in 1..n |-> [el |-> "text", text |-> <<Backtick>>, comment |-> <<>>]]
            \o HtmlNodes(m, p + n)
       ELSE <<[el |-> "code", text |-> SubSeq(m, p + n, c - 1), comment |-> <<>>]>>
            \o HtmlNodes(m, c + n)
  ELSE IF m[p] = "<sup>"
  THEN LET c == FirstAt(m, p, "<!--")
           e == FirstAt(m, c, "-->")
           z == FirstAt(m, e, "</sup>") IN
       <<[el |-> "sup", text |-> SubSeq(m, p + 1, c - 1),
          comment |-> SubSeq(m, c + 1, e - 1)]>> \o HtmlNodes(m, z + 1)
  ELSE <<[el |-> "text", text |-> <<m[p]>>, comment |-> <<>>]>> \o HtmlNodes(m, p + 1)

\* hoveredCitation === null
NoHover == <<>>

\* `${message.id}-${citation.id}-${citationNumber}-${instance}`
\* `${x}` of a value
ToStr(x) ==
  CASE x.t = "str" -> x.v
    [] x.t = "num" -> ToDigits(x.v)
    [] x.t = "bool" -> IF x.v THEN <<"true">> ELSE <<"false">>
    [] OTHER -> <<x.t>>

HoverKey(msg, citation, n, instance) ==
  ToDigits(msg.id) \o <<"-">> \o ToStr(citation.id) \o <<"-">> \o ToDigits(n)
  \o <<"-">> \o instance

\* SupComponentClamped: a number beyond the citations resolves to the last one
SupComponentClamped(msg, node, hovered) ==
  LET textContent == node.text
      ms == {p \in 1..Len(textContent) : MatchAt(textContent, p, FALSE) > 0}
      plain == [kind |-> "plain", text |-> textContent, instance |-> node.comment,
                number |-> 0, citation |-> <<>>, hoverKey |-> NoHover,
                tooltip |-> FALSE]
  IN
  IF ms = {} \/ msg.citations = <<>> THEN plain
  ELSE LET p == CHOOSE q \in ms : \A r \in ms : q <= r
           ds == SubSeq(textContent, p + 1, p + DigitRun(textContent, p + 1))
           n == ParseInt(ds, Len(ds))
           at == IF n > Len(msg.citations) THEN Len(msg.citations) ELSE n
       IN
       IF at < 1 THEN plain
       ELSE [kind |-> "citation", text |-> textContent, instance |-> node.comment,
             number |-> n, citation |-> <<msg.citations[at]>>,
             hoverKey |-> HoverKey(msg, msg.citations[at], n, node.comment),
             tooltip |-> hovered = HoverKey(msg, msg.citations[at], n, node.comment)]

\* the sup component: what it returns for a sup node of message msg
SupComponent(msg, node, hovered) ==
  LET textContent == node.text
      instance == node.comment
      \* textContent.match(/\[(\d+)\]/) ("part": with \.?\s* after it)
      ms == {p \in 1..Len(textContent) : MatchAt(textContent, p, FALSE) > 0}
      plain == [kind |-> "plain", text |-> textContent, instance |-> instance,
                number |-> 0, citation |-> <<>>, hoverKey |-> NoHover,
                tooltip |-> FALSE]
  IN
  IF ms = {} THEN plain
  ELSE LET p == CHOOSE q \in ms : \A r \in ms : q <= r
           ds == SubSeq(textContent, p + 1, p + DigitRun(textContent, p + 1))
           citationNumber == ParseInt(ds, Len(ds))
       IN
       \* message.citations?.[citationNumber - 1]
       IF citationNumber >= 1 /\ citationNumber <= Len(msg.citations)
       THEN LET citation == msg.citations[citationNumber]
                hoverKey == HoverKey(msg, citation, citationNumber, instance) IN
            [kind |-> "citation", text |-> textContent, instance |-> instance,
             number |-> citationNumber, citation |-> <<citation>>,
             hoverKey |-> hoverKey, tooltip |-> hovered = hoverKey]
       ELSE plain

\* what a message shows: a bot message goes through the rewrite and
\* ReactMarkdown, a user message is shown as it is
RenderMessage(msg, hovered) ==
  IF msg.sender = "bot"
  THEN LET nodes == HtmlNodes(PrePass(msg.text), 1) IN
       [k \in 1..Len(nodes) |->
          IF nodes[k].el = "sup" THEN SupComponent(msg, nodes[k], hovered)
          ELSE [kind |-> nodes[k].el, text |-> nodes[k].text, instance |-> <<>>,
                number |-> 0, citation |-> <<>>, hoverKey |-> NoHover,
                tooltip |-> FALSE]]
  ELSE <<[kind |-> "text", text |-> msg.text, instance |-> <<>>, number |-> 0,
          citation |-> <<>>, hoverKey |-> NoHover, tooltip |-> FALSE]>>

\* messages.map((message) => ...)
Render(msgs, hovered) == [k \in 1..Len(msgs) |-> RenderMessage(msgs[k], hovered)]

\* the state the chat actions leave alone while the page is rendered
chatVars == <<impl, pc, inputText, messages, isTyping, now, frames, terminated,
              body, pos, utf8Lead, buffer, responseText, citations,
              botMessageId, events, parsed, errors, reqs, voiceVars,
              uploadVars>>

\* the first render of the page
Mount ==
  /\ view = <<>>
  /\ view' = Render(messages, hoveredCitation)
  /\ UNCHANGED <<chatVars, hoveredCitation, entered>>

\* onMouseEnter={() => setHoveredCitation(hoverKey)} on element j of message k
MouseEnter(k, j) ==
  /\ view # <<>>
  /\ view[k][j].kind = "citation"
  /\ hoveredCitation' = view[k][j].hoverKey
  /\ view' = Render(messages, hoveredCitation')
  /\ UNCHANGED chatVars

\* onMouseLeave={() => setHoveredCitation(null)} on element j of message k
MouseLeave(k, j) ==
  /\ view # <<>>
  /\ view[k][j].kind = "citation"
  /\ hoveredCitation' = NoHover
  /\ view' = Render(messages, hoveredCitation')
  /\ UNCHANGED chatVars

\* the texts of the bot message that is rendered: up to MaxPieces pieces
Pieces == {<<"[", "1", "]">>, <<"[", "2", "]">>, <<"[", "0", "]">>,
           <<"[", "1", "2", "]">>, <<".">>, <<"x">>, <<"[">>, <<"]">>,
           <<"1">>, <<" ">>}
MaxPieces == 3

RenderTexts ==
  UNION {{Flatten(f, 1, n) : f \in [1..n -> Pieces]} : n \in 0..MaxPieces}

\* the citations of the bot message that is rendered
RenderCitations == {<<>>, <<Cit("q")>>, <<Cit("p"), Cit("q")>>}

\* the page showing the messages msgs, no request having been made
PageShowing(msgs) ==
  /\ pc = "idle"
  /\ inputText = <<>>
  /\ now = 10
  /\ messages = msgs
  /\ isTyping = FALSE
  /\ frames = <<>>
  /\ terminated = TRUE
  /\ body = <<>>
  /\ pos = 0
  /\ utf8Lead = FALSE
  /\ buffer = <<>>
  /\ responseText = <<>>
  /\ citations = <<>>
  /\ botMessageId = now + 1
  /\ events = <<>>
  /\ parsed = <<>>
  /\ errors = 0
  /\ view = <<>>
  /\ hoveredCitation = NoHover
  /\ reqs = <<>>
  /\ InitOther

\* the bot messages of the page that is rendered: one, or two of requests
\* answered in the same millisecond (same id, and so the same text and
\* citations) or one millisecond apart
RenderBots(text, cits) ==
  {<<Message(now + 1, text, "bot", <<now>>, cits)>>,
   <<Message(now + 1, text, "bot", <<now>>, cits),
     Message(now + 1, text, "bot", <<now>>, cits)>>,
   <<Message(now + 1, text, "bot", <<now>>, cits),
     Message(now + 2, text, "bot", <<now>>, cits)>>}

InitRender ==
  /\ impl \in {"page", "part"}
  /\ now = 10
  /\ \E text \in RenderTexts, cits \in RenderCitations :
       \E bots \in RenderBots(text, cits) :
         PageShowing(<<Message(1, GreetingText, "bot", <<now>>, <<>>)>> \o bots)

NextRender ==
  \/ Mount
  \/ \E k \in 1..Len(view) : \E j \in 1..Len(view[k]) :
       MouseEnter(k, j) /\ UNCHANGED entered
  \/ \E k \in 1..Len(view) : \E j \in 1..Len(view[k]) :
       MouseLeave(k, j) /\ UNCHANGED entered

SpecRender == InitRender /\ [][NextRender]_vars

\* the positions of the text where a marker starts: "[", digits, "]"
MarkerStarts(text) ==
  {p \in 1..Len(text) :
     /\ text[p] = "["
     /\ \E q \in (p + 2)..Len(text) :
          /\ text[q] = "]"
          /\ \A r \in (p + 1)..(q - 1) : text[r] \in Digits}

\* the j-th marker of the text, from "[" to "]"
MarkerAt(text, j) ==
  LET ps == MarkerStarts(text)
      p == CHOOSE q \in ps : Cardinality({r \in ps : r < q}) = j - 1
      e == CHOOSE q \in (p + 2)..Len(text) :
             text[q] = "]" /\ \A r \in (p + 1)..(q - 1) : text[r] # "]"
  IN [from |-> p, to |-> e]

\* the sup elements shown for message k, left to right
SupsOf(k) == SelectSeq(view[k], LAMBDA el : el.kind \in {"citation", "plain"})

\* C9: occurrence instances.  A text with k markers is shown with k sup
\* elements; the j-th holds the j-th marker and has instance tag j, whatever
\* its number; a marker whose number N is within the citations resolves to
\* citation N, and two sup elements never have the same tag nor, if they
\* resolve, the same hover key.
C9_OccurrenceInstances ==
  view # <<>> =>
    LET text == messages[2].text
        cits == messages[2].citations
        sups == SupsOf(2) IN
    /\ Len(sups) = Cardinality(MarkerStarts(text))
    /\ \A j \in 1..Len(sups) :
         LET m == MarkerAt(text, j)
             n == ParseInt(SubSeq(text, m.from + 1, m.to - 1), m.to - m.from - 1) IN
         /\ sups[j].instance = <<DigitChars[j + 1]>>
         /\ SubSeq(sups[j].text, 1, m.to - m.from + 1) = SubSeq(text, m.from, m.to)
         /\ (n >= 1 /\ n <= Len(cits)) =>
              /\ sups[j].kind = "citation"
              /\ sups[j].number = n
              /\ sups[j].citation = <<cits[n]>>
    /\ \A i, j \in 1..Len(sups) :
         i # j => /\ sups[i].instance # sups[j].instance
                  /\ (sups[i].kind = "citation" /\ sups[j].kind = "citation")
                       => sups[i].hoverKey # sups[j].hoverKey

\* C9 witness: "[1][1]" with a citation is shown as two references to
\* citation 1, with tags 1 and 2
C9_Witness ==
  /\ view # <<>>
  /\ messages[2].text = <<"[", "1", "]", "[", "1", "]">>
  /\ Len(messages[2].citations) = 1
  /\ Len(SupsOf(2)) = 2
  /\ SupsOf(2)[1].number = 1
  /\ SupsOf(2)[2].number = 1
  /\ SupsOf(2)[2].instance = <<"2">>

\* C10: wherever the rewrite is performed, a marker that is followed by a
\* period is matched with the period: the period is in the sup element's
\* text.
C10_PeriodInsideSup ==
  view # <<>> =>
    LET text == messages[2].text
        sups == SupsOf(2) IN
    \A j \in 1..Len(sups) :
      LET m == MarkerAt(text, j) IN
      (m.to < Len(text) /\ text[m.to + 1] = ".")
        => sups[j].text = SubSeq(text, m.from, m.to + 1)

\* the bot messages shown
BotsShown == {k \in 1..Len(view) : messages[k].sender = "bot"}

\* the number of the j-th marker of the text
MarkerNumber(text, j) ==
  LET m == MarkerAt(text, j) IN
  ParseInt(SubSeq(text, m.from + 1, m.to - 1), m.to - m.from - 1)

\* the j-th marker of the text is followed by a period
PeriodAfter(text, j) ==
  LET m == MarkerAt(text, j) IN m.to < Len(text) /\ text[m.to + 1] = "."

\* C11: out-of-range markers degrade to plain text.  A marker whose number
\* is below 1 or above the number of citations of its message (none
\* included) is shown as the text that was matched, without hover handlers
\* and without a tooltip, and the active hover key is never the key of such
\* a marker: it is null or the key of a marker that resolves to a citation.
C11_OutOfRangePlain ==
  /\ \A k \in BotsShown :
       LET text == messages[k].text
           cits == messages[k].citations
           sups == SupsOf(k) IN
       \A j \in 1..Len(sups) :
         LET m == MarkerAt(text, j)
             n == MarkerNumber(text, j) IN
         (n < 1 \/ n > Len(cits)) =>
           /\ sups[j].kind = "plain"
           /\ \/ sups[j].text = SubSeq(text, m.from, m.to)
              \/ /\ PeriodAfter(text, j)
                 /\ sups[j].text = SubSeq(text, m.from, m.to + 1)
           /\ sups[j].hoverKey = NoHover
           /\ ~sups[j].tooltip
  /\ hoveredCitation # NoHover =>
       \E k \in BotsShown : \E j \in 1..Len(SupsOf(k)) :
         /\ SupsOf(k)[j].hoverKey = hoveredCitation
         /\ MarkerNumber(messages[k].text, j) \in 1..Len(messages[k].citations)

\* C11 witness: "[2][1]" with one citation; "[2]" is shown as plain text
\* while the reference to citation 1 is hovered
C11_Witness ==
  /\ view # <<>>
  /\ messages[2].text = <<"[", "2", "]", "[", "1", "]">>
  /\ Len(messages[2].citations) = 1
  /\ SupsOf(2)[1].kind = "plain"
  /\ SupsOf(2)[1].text = <<"[", "2", "]">>
  /\ SupsOf(2)[2].tooltip

\* the texts with code spans that are rendered: up to MaxCodePieces pieces
CodePieces == {<<Backtick>>, <<"[", "1", "]">>, <<"[", "2", "]", ".">>, <<"x">>}
MaxCodePieces == 3

CodeTexts ==
  UNION {{Flatten(f, 1, n) : f \in [1..n -> CodePieces]} : n \in 0..MaxCodePieces}

InitCode ==
  /\ impl \in {"page", "part"}
  /\ \E text \in CodeTexts, cits \in RenderCitations :
       PageShowing(<<Message(1, GreetingText, "bot", <<now>>, <<>>),
                     Message(now + 1, text, "bot", <<now>>, cits)>>)

SpecCode == InitCode /\ [][NextRender]_vars

\* the contents of the code spans among the nodes or elements es
CodeSpansOf(es) ==
  LET codes == SelectSeq(es, LAMBDA e : (IF "el" \in DOMAIN e THEN e.el ELSE e.kind) = "code")
  IN [k \in 1..Len(codes) |-> codes[k].text]

\* C13: the rewrite leaves code spans alone.  The code spans a bot message
\* is shown with have the contents that the code spans of its text have: a
\* bracketed number in a code span is not replaced by sup markup.
C13_CodeSpansUnchanged ==
  \A k \in BotsShown :
    CodeSpansOf(view[k]) = CodeSpansOf(HtmlNodes(messages[k].text, 1))

\* ------------------------------------------------------------ several requests

\* the number of calls of handleSendMessage and the milliseconds that pass
MaxRequests == 2
MaxTicks == 1

\* the bodies of the responses, as lines; each ends with a newline
ConcurrentBodies == {<<"CitQ", "TextA">>, <<"TextA", "TextA">>}

\* the variables of the single request, the rendering, the voice input and
\* the upload page, which the concurrent calls leave alone
singleVars == <<pc, frames, terminated, body, pos, utf8Lead, buffer,
                responseText, citations, botMessageId, events, parsed, errors,
                view, hoveredCitation, entered, voiceVars, uploadVars>>

\* a call of handleSendMessage at `await fetch(...)`; shown is the position
\* of its streamed bot message in the message list, 0 while it has none
NewRequest ==
  [pc |-> "fetch", body |-> <<>>, pos |-> 0, lead |-> FALSE, buffer |-> <<>>,
   responseText |-> <<>>, citations |-> <<>>, botMessageId |-> 0, shown |-> 0]

\* Date.now() advances
Tick ==
  /\ now < 10 + MaxTicks
  /\ now' = now + 1
  /\ UNCHANGED <<impl, inputText, messages, isTyping, reqs, singleVars>>

\* onChange={(e) => setInputText(e.target.value)}
ReqType(q) ==
  /\ inputText # q
  /\ inputText' = q
  /\ UNCHANGED <<impl, messages, isTyping, now, reqs, singleVars>>

\* handleSendMessage up to `await fetch(...)`, from the Enter key, which does
\* not look at isTyping, or from the button
ReqSend ==
  /\ Len(reqs) < MaxRequests
  /\ ~IsBlank(inputText)
  /\ messages' = Append(messages, Message(now, inputText, "user", <<now>>, <<>>))
  /\ inputText' = <<>>
  /\ isTyping' = TRUE
  /\ reqs' = Append(reqs, NewRequest)
  /\ UNCHANGED <<impl, now, singleVars>>

\* catch (error) { ... } finally { setIsTyping(false) } of call r
ReqCatch(r) ==
  /\ messages' = Append(messages, FallbackMessage)
  /\ isTyping' = FALSE
  /\ reqs' = [reqs EXCEPT ![r].pc = "caught"]
  /\ UNCHANGED <<impl, inputText, now, singleVars>>

\* fetch rejects
ReqFetchFail(r) ==
  /\ reqs[r].pc = "fetch"
  /\ ReqCatch(r)

\* fetch resolves with a response that is not usable
ReqRespondNotUsable(r) ==
  /\ reqs[r].pc = "fetch"
  /\ reqs' = [reqs EXCEPT ![r].pc = "errtext"]
  /\ UNCHANGED <<impl, inputText, messages, isTyping, now, singleVars>>

\* response.text() resolves
ReqErrorText(r, e) ==
  /\ reqs[r].pc = "errtext"
  /\ messages' = Append(messages, ErrorMessage(e))
  /\ isTyping' = FALSE
  /\ reqs' = [reqs EXCEPT ![r].pc = "rejected"]
  /\ UNCHANGED <<impl, inputText, now, singleVars>>

\* response.text() rejects
ReqErrorTextFail(r) ==
  /\ reqs[r].pc = "errtext"
  /\ ReqCatch(r)

\* "page": an OK response without a body
ReqRespondNoBody(r) ==
  /\ impl = "page"
  /\ reqs[r].pc = "fetch"
  /\ ReqCatch(r)

\* fetch resolves with an OK response with a body: the bot message is added
ReqRespondOk(r, fs) ==
  /\ reqs[r].pc = "fetch"
  /\ messages' = Append(messages, Message(now + 1, <<>>, "bot", NoTime, <<>>))
  /\ reqs' = [reqs EXCEPT ![r] = [NewRequest EXCEPT
                !.pc = "read", !.body = BodyOf(fs, TRUE),
                !.botMessageId = now + 1, !.shown = Len(messages) + 1]]
  /\ UNCHANGED <<impl, inputText, isTyping, now, singleVars>>

\* the locals of call r and the message list, as Feed reads and writes them
DecoderOf(r) ==
  [FreshDecoder(messages) EXCEPT
     !.lead = reqs[r].lead, !.buffer = reqs[r].buffer,
     !.responseText = reqs[r].responseText, !.citations = reqs[r].citations,
     !.id = reqs[r].botMessageId]

\* reader.read() of call r resolves with the next n bytes
ReqReadChunk(r, n) ==
  /\ reqs[r].pc = "read"
  /\ reqs[r].pos + n <= Len(reqs[r].body)
  /\ LET st == Feed(DecoderOf(r),
                    SubSeq(reqs[r].body, reqs[r].pos + 1, reqs[r].pos + n)) IN
       /\ messages' = st.messages
       /\ reqs' = [reqs EXCEPT ![r].pos = @ + n, ![r].lead = st.lead,
                               ![r].buffer = st.buffer,
                               ![r].responseText = st.responseText,
                               ![r].citations = st.citations]
  /\ UNCHANGED <<impl, inputText, isTyping, now, singleVars>>

\* reader.read() of call r resolves with done
ReqReadDone(r) ==
  /\ reqs[r].pc = "read"
  /\ reqs[r].pos = Len(reqs[r].body)
  /\ messages' = CompletedAs(messages, reqs[r].botMessageId,
                             reqs[r].responseText, reqs[r].citations)
  /\ isTyping' = FALSE
  /\ reqs' = [reqs EXCEPT ![r].pc = "done"]
  /\ UNCHANGED <<impl, inputText, now, singleVars>>

\* reader.read() of call r rejects
ReqReadFail(r) ==
  /\ reqs[r].pc = "read"
  /\ ReqCatch(r)

\* the sizes of the next chunk of call r: up to the end of a line
LineChunks(r) ==
  {n \in 1..(Len(reqs[r].body) - reqs[r].pos) : reqs[r].body[reqs[r].pos + n] = Newline}

NextMulti ==
  \/ Tick
  \/ \E q \in Queries : ReqType(q)
  \/ ReqSend
  \/ \E r \in 1..Len(reqs) : ReqFetchFail(r)
  \/ \E r \in 1..Len(reqs) : ReqRespondNotUsable(r)
  \/ \E r \in 1..Len(reqs), e \in ErrorTexts : ReqErrorText(r, e)
  \/ \E r \in 1..Len(reqs) : ReqErrorTextFail(r)
  \/ \E r \in 1..Len(reqs) : ReqRespondNoBody(r)
  \/ \E r \in 1..Len(reqs), fs \in ConcurrentBodies : ReqRespondOk(r, fs)
  \/ \E r \in 1..Len(reqs) : \E n \in LineChunks(r) : ReqReadChunk(r, n)
  \/ \E r \in 1..Len(reqs) : ReqReadDone(r)
  \/ \E r \in 1..Len(reqs) : ReqReadFail(r)

SpecMulti == Init /\ [][NextMulti]_vars

\* a is a prefix of b
IsPrefix(a, b) == Len(a) <= Len(b) /\ SubSeq(b, 1, Len(a)) = a

\* the stream of the bot message at position k is open
StreamOpen(k) == \E r \in 1..Len(reqs) : reqs[r].shown = k /\ reqs[r].pc = "read"

\* C14: message ids are unique and ordered by creation.  Messages are added
\* at the end of the list, so a message further down the list was created
\* later: its id is larger.
C14_IdsUniqueOrdered ==
  \A i, j \in 1..Len(messages) : i < j => messages[i].id < messages[j].id

\* C15: the text of a bot message only grows while its stream is open and
\* does not change otherwise.  In every step the text of a bot message whose
\* stream is open is a prefix of its text after the step, and the text of
\* any other bot message is the same after the step.
C15_TextGrowsThenFixed ==
  [][\A k \in 1..Len(messages) :
       messages[k].sender = "bot" =>
         IF StreamOpen(k)
         THEN IsPrefix(messages[k].text, messages'[k].text)
         ELSE messages'[k].text = messages[k].text]_vars

\* what C16 says of a state
C16_StateOk ==
  /\ \A k \in 1..Len(messages) :
       messages[k].sender = "user" => messages[k].timestamp # NoTime
  /\ \A r \in 1..Len(reqs) :
       /\ reqs[r].pc = "read" => messages[reqs[r].shown].timestamp = NoTime
       /\ reqs[r].pc = "done" => messages[reqs[r].shown].timestamp # NoTime

\* C16: timestamps are set once.  A user message has a timestamp from its
\* creation; a streamed bot message has none while its stream is open and
\* has one when the stream has completed; a timestamp is given to a message
\* in the list only by the step that completes its stream, and a timestamp
\* that is set does not change.
C16_TimestampSetOnce ==
  /\ []C16_StateOk
  /\ [][\A k \in 1..Len(messages) :
          IF messages[k].timestamp # NoTime
          THEN messages'[k].timestamp = messages[k].timestamp
          ELSE messages'[k].timestamp # NoTime =>
                 \E r \in 1..Len(reqs) :
                   /\ reqs[r].shown = k
                   /\ reqs[r].pc = "read"
                   /\ reqs'[r].pc = "done"]_vars

\* C17: decoder state is per request.  A step of the stream of one call, a
\* chunk or its end, leaves the locals of every other call as they are and
\* changes the text and citations of no message but the call's own bot
\* message.
C17_DecoderPerRequest ==
  [][\A r \in 1..Len(reqs) :
       (reqs[r].pc = "read" /\ reqs'[r] # reqs[r] /\ reqs'[r].pc \in {"read", "done"}) =>
         /\ \A o \in 1..Len(reqs) : o # r => reqs'[o] = reqs[o]
         /\ \A k \in 1..Len(messages) :
              k # reqs[r].shown =>
                /\ messages'[k].text = messages[k].text
                /\ messages'[k].citations = messages[k].citations]_vars

\* the elements shown with their tooltip, each as <<message, element>>
TooltipsShown ==
  {ke \in UNION {{<<k, j>> : j \in 1..Len(view[k])} : k \in 1..Len(view)} :
     view[ke[1]][ke[2]].tooltip}

\* C12: hover exclusivity.  At most one tooltip is displayed, over all
\* messages and all markers, and when a marker is entered its key becomes
\* the active one: the elements that had the previous key show no tooltip.
C12_OneTooltip ==
  /\ [](Cardinality(TooltipsShown) <= 1)
  /\ [][(hoveredCitation' # hoveredCitation /\ hoveredCitation' # NoHover) =>
          \A k \in 1..Len(view) : \A j \in 1..Len(view[k]) :
            view'[k][j].tooltip <=> view'[k][j].hoverKey = hoveredCitation']_vars

\* what C18 says of a state: after a failure the indicator is off and the
\* list holds one fallback message, the last one
C18_StateOk ==
  pc = "caught" =>
    /\ ~isTyping
    /\ Cardinality({k \in 1..Len(messages) : messages[k].text = FallbackText}) = 1
    /\ messages[Len(messages)].text = FallbackText
    /\ messages[Len(messages)].sender = "bot"

\* C18: network failure is terminal for the request.  The step in which the
\* fetch or a read fails appends the fallback message and nothing else and
\* clears the typing indicator, and after it no chunk is read and neither
\* the messages nor the handler's text, citations and events change.
C18_FailureIsTerminal ==
  /\ []C18_StateOk
  /\ [][(pc # "caught" /\ pc' = "caught") =>
          /\ messages' = Append(messages, FallbackMessage)
          /\ ~isTyping']_vars
  /\ [][pc = "caught" =>
          UNCHANGED <<pc, messages, events, pos, responseText, citations,
                      isTyping>>]_vars

\* C18 witness: a read failed after a text delta was applied
C18_Witness ==
  /\ pc = "caught"
  /\ Len(events) = 1
  /\ Len(messages) = 4
  /\ messages[3].text = <<"a">>
  /\ messages[4].text = FallbackText

\* the text s occurs in the text t
Occurs(s, t) ==
  \E i \in 0..(Len(t) - Len(s)) : SubSeq(t, i + 1, i + Len(s)) = s

\* C19: a response that is not OK.  When its text has been read, the list
\* holds, after the greeting and the user message, one bot message, whose
\* text contains the text of the response; no bot message was added for a
\* stream, no line was decoded and no event applied, and the typing
\* indicator is off.
C19_NonOkReported ==
  pc = "rejected" =>
    /\ Len(messages) = 3
    /\ messages[3].sender = "bot"
    /\ Occurs(Utf8Decode(body, FALSE).out, messages[3].text)
    /\ messages[3].timestamp # NoTime
    /\ botMessageId = 0
    /\ parsed = <<>>
    /\ events = <<>>
    /\ ~isTyping

\* C19 witness: the response's text "e" is shown
C19_Witness ==
  /\ pc = "rejected"
  /\ body = <<"e">>
  /\ Occurs(<<"e">>, messages[3].text)

\* ------------------------------------------------------------ termination

\* the bodies of the responses, as lines, of the requests whose end is
\* waited for
LiveBodies == {<<"TextA">>, <<"NotJson", "TextA">>, <<"CitQ", "Cut">>}

\* the collaborator responds, ends the stream, or fails
Collaborator ==
  \/ FetchFail
  \/ \E e \in ErrorTexts : RespondNotUsable(e)
  \/ ErrorText
  \/ ErrorTextFail
  \/ RespondNoBody
  \/ \E fs \in LiveBodies, term \in BOOLEAN : RespondOk(fs, term)
  \/ ReadDone
  \/ ReadFail

NextLive ==
  \/ \E q \in Queries : Type(q)
  \/ Send
  \/ Collaborator
  \/ \E n \in ChunkSizes : ReadChunk(n)

\* the single request, with a collaborator that eventually responds, ends
\* the stream or fails, whatever chunks it delivers before
SpecLive == Init /\ [][NextLive]_vars /\ WF_vars(Collaborator)

\* the handler has returned
Finished == pc \in {"done", "caught", "rejected"}

\* C20: every request terminates and every failure ends in a message.  A
\* request that was sent eventually finishes with the typing indicator off,
\* on every path, if the collaborator keeps answering; and a request that
\* finished by a failure or a response that is not usable has added a bot
\* message with a text as the last message.
C20_RequestTerminates ==
  /\ (pc = "fetch") ~> (Finished /\ ~isTyping)
  /\ [](pc \in {"caught", "rejected"} =>
          /\ messages[Len(messages)].sender = "bot"
          /\ messages[Len(messages)].text # <<>>)

\* C20 witness: a request whose response had a malformed frame has finished
C20_Witness ==
  /\ pc = "done"
  /\ errors = 1
  /\ ~isTyping

\* ------------------------------------------------------------ voice input

\* the calls of startRecording and the messages the sockets deliver
MaxRecordings == 1
MaxFragments == 2

KeyTranscript == <<"t", "r", "a", "n", "s", "c", "r", "i", "p", "t">>
KeyIsFinal == <<"i", "s", "_", "f", "i", "n", "a", "l">>

\* a message of the transcription socket
Fragment(t, final) ==
  <<"{">> \o Member(KeyTranscript, StrLit(t)) \o <<",">>
          \o Member(KeyIsFinal, IF final THEN <<"t", "r", "u", "e">>
                                ELSE <<"f", "a", "l", "s", "e">>) \o <<"}">>

\* the messages the transcription socket sends, each under a name
FragmentOf(name) ==
  CASE name = "FinalA" -> Fragment(<<"a">>, TRUE)
    [] name = "InterimB" -> Fragment(<<"b">>, FALSE)
    [] name = "FinalEmpty" -> Fragment(<<>>, TRUE)
    [] name = "InterimEmpty" -> Fragment(<<>>, FALSE)
    [] name = "Untagged" -> <<"{">> \o Member(KeyTranscript, StrLit(<<"c">>)) \o <<"}">>
    [] name = "JsonNull" -> <<"n", "u", "l", "l">>
    [] name = "NotJson" -> <<"x">>

Fragments == {"FinalA", "InterimB", "FinalEmpty", "InterimEmpty", "Untagged",
              "JsonNull", "NotJson"}

\* a call of startRecording at `await getUserMedia(...)`: pc is "media"
\* there, "set" once the handlers are installed, "failed" after the catch
\* block; recorder is the state of its MediaRecorder, tracks that of the
\* tracks of its stream, ws the readyState of its socket; heard and last
\* are history: how many messages its socket delivered, and the last one
NewRecording ==
  [pc |-> "media", recorder |-> "none", tracks |-> "none", ws |-> "none",
   finalTranscript |-> <<>>, heard |-> 0, last |-> "none"]

\* the variables the voice input leaves alone
quietVars == <<impl, now, pc, frames, terminated, body, pos, utf8Lead, buffer,
               responseText, citations, botMessageId, events, parsed, errors,
               view, hoveredCitation, entered, uploadVars>>

\* startRecording up to `await navigator.mediaDevices.getUserMedia(...)`
StartRecording ==
  /\ impl = "part"
  /\ ~isRecording
  /\ Len(recordings) < MaxRecordings
  /\ inputText' = <<>>
  /\ recordings' = Append(recordings, NewRecording)
  /\ UNCHANGED <<quietVars, messages, isTyping, reqs, isRecording,
                 mediaRecorder, websocket>>

\* getUserMedia resolves: the recorder and the socket are made and the
\* handlers installed
GetUserMediaOk(c) ==
  /\ recordings[c].pc = "media"
  /\ recordings' = [recordings EXCEPT ![c].pc = "set",
                                      ![c].recorder = "inactive",
                                      ![c].tracks = "live",
                                      ![c].ws = "connecting"]
  /\ mediaRecorder' = c
  /\ isRecording' = TRUE
  /\ websocket' = c
  /\ UNCHANGED <<quietVars, inputText, messages, isTyping, reqs>>

\* getUserMedia rejects: the catch block
GetUserMediaFail(c) ==
  /\ recordings[c].pc = "media"
  /\ recordings' = [recordings EXCEPT ![c].pc = "failed"]
  /\ isRecording' = FALSE
  /\ UNCHANGED <<quietVars, inputText, messages, isTyping, reqs,
                 mediaRecorder, websocket>>

\* ws.onopen: recorder.start(250)
WsOpen(c) ==
  /\ recordings[c].ws = "connecting"
  /\ recordings' = [recordings EXCEPT ![c].ws = "open",
                                      ![c].recorder = "recording"]
  /\ UNCHANGED <<quietVars, inputText, messages, isTyping, reqs, isRecording,
                 mediaRecorder, websocket>>

\* an accumulated transcript that a final fragment extended by interim
OnMessageInterimKept(finalTranscript, input, m) ==
  LET data == JSONparse(m) IN
  IF ~data.ok \/ PropThrows(data.v)
  THEN [finalTranscript |-> finalTranscript, input |-> input]
  ELSE LET transcript == Prop(data.v, KeyTranscript) IN
       IF ~Truthy(transcript)
       THEN [finalTranscript |-> finalTranscript, input |-> input]
       ELSE [finalTranscript |-> finalTranscript \o ToStr(transcript) \o <<" ">>,
             input |-> finalTranscript \o ToStr(transcript) \o <<" ">>]

\* the body of ws.onmessage on the message m: the new values of
\* `finalTranscript` and of the input field
OnMessage(finalTranscript, input, m) ==
  LET data == JSONparse(m) IN
  IF ~data.ok \/ PropThrows(data.v)
  THEN [finalTranscript |-> finalTranscript, input |-> input]
  ELSE LET transcript == Prop(data.v, KeyTranscript) IN
       IF ~Truthy(transcript)
       THEN [finalTranscript |-> finalTranscript, input |-> input]
       ELSE IF Truthy(Prop(data.v, KeyIsFinal))
       THEN [finalTranscript |-> finalTranscript \o ToStr(transcript) \o <<" ">>,
             input |-> finalTranscript \o ToStr(transcript) \o <<" ">>]
       ELSE [finalTranscript |-> finalTranscript,
             input |-> finalTranscript \o ToStr(transcript)]

RECURSIVE Heard(_, _)
\* the number of messages the sockets of recs[1..k] delivered
Heard(recs, k) == IF k = 0 THEN 0 ELSE Heard(recs, k - 1) + recs[k].heard

\* ws.onmessage of the socket of call c, which delivers messages until it
\* is closed
WsMessage(c, name) ==
  /\ recordings[c].ws \in {"open", "closing"}
  /\ Heard(recordings, Len(recordings)) < MaxFragments
  /\ LET r == OnMessage(recordings[c].finalTranscript, inputText,
                        FragmentOf(name)) IN
       /\ inputText' = r.input
       /\ recordings' = [recordings EXCEPT
                           ![c].finalTranscript = r.finalTranscript,
                           ![c].heard = @ + 1, ![c].last = name]
  /\ UNCHANGED <<quietVars, messages, isTyping, reqs, isRecording,
                 mediaRecorder, websocket>>

\* ws.onerror of the socket of call c; its close event follows
WsError(c) ==
  /\ recordings[c].ws \in {"connecting", "open"}
  /\ recordings' = [recordings EXCEPT ![c].ws = "closing"]
  /\ isRecording' = FALSE
  /\ UNCHANGED <<quietVars, inputText, messages, isTyping, reqs,
                 mediaRecorder, websocket>>

\* ws.onclose of the socket of call c: the server closed it, or the close
\* that stopRecording or an error began is complete
WsClose(c) ==
  /\ recordings[c].ws \in {"open", "closing"}
  /\ recordings' = [recordings EXCEPT ![c].ws = "closed"]
  /\ isRecording' = FALSE
  /\ UNCHANGED <<quietVars, inputText, messages, isTyping, reqs,
                 mediaRecorder, websocket>>

\* mediaRecorder.stop(); mediaRecorder.stream.getTracks().forEach(stop)
Stopped(recs) ==
  IF mediaRecorder = 0 THEN recs
  ELSE [recs EXCEPT ![mediaRecorder].recorder = "inactive",
                    ![mediaRecorder].tracks = "ended"]

\* if (websocket.readyState === WebSocket.OPEN) websocket.close()
Closed(recs) ==
  IF websocket # 0 /\ recs[websocket].ws = "open"
  THEN [recs EXCEPT ![websocket].ws = "closing"]
  ELSE recs

\* stopRecording, with the call of handleSendMessage that ends it
StopRecording ==
  /\ isRecording
  /\ IsBlank(inputText) \/ Len(reqs) < MaxRequests
  /\ isRecording' = FALSE
  /\ recordings' = Closed(Stopped(recordings))
  /\ mediaRecorder' = 0
  /\ websocket' = 0
  /\ IF IsBlank(inputText)
     THEN UNCHANGED <<inputText, messages, isTyping, reqs>>
     ELSE /\ messages' = Append(messages,
                                Message(now, inputText, "user", <<now>>, <<>>))
          /\ inputText' = <<>>
          /\ isTyping' = TRUE
          /\ reqs' = Append(reqs, NewRequest)
  /\ UNCHANGED quietVars

\* onChange of the input field while the voice input is used
VoiceType(q) ==
  /\ inputText # q
  /\ inputText' = q
  /\ UNCHANGED <<quietVars, messages, isTyping, reqs, voiceVars>>

NextVoice ==
  \/ StartRecording
  \/ \E c \in 1..Len(recordings) : GetUserMediaOk(c)
  \/ \E c \in 1..Len(recordings) : GetUserMediaFail(c)
  \/ \E c \in 1..Len(recordings) : WsOpen(c)
  \/ \E c \in 1..Len(recordings), name \in Fragments : WsMessage(c, name)
  \/ \E c \in 1..Len(recordings) : WsError(c)
  \/ \E c \in 1..Len(recordings) : WsClose(c)
  \/ StopRecording
  \/ \E q \in Queries : VoiceType(q)

SpecVoice == Init /\ [][NextVoice]_vars

\* what the transcription service means by a message: the transcript it
\* carries and whether it is tagged final
TranscriptOf(name) ==
  CASE name = "FinalA" -> <<"a">>
    [] name = "InterimB" -> <<"b">>
    [] name = "Untagged" -> <<"c">>
    [] OTHER -> <<>>

IsFinalOf(name) == name \in {"FinalA", "FinalEmpty"}

\* the messages that are fragments: an object with a transcript
WellFormed == {"FinalA", "InterimB", "FinalEmpty", "InterimEmpty", "Untagged"}

\* C21: live transcription updates the input field in arrival order.  When
\* a socket delivers a fragment, a fragment tagged final is appended with a
\* space to the accumulated final transcript of that recording and the
\* input field shows that transcript; a fragment that is not final makes
\* the input field show the accumulated final transcript followed by the
\* fragment and leaves the accumulated transcript as it was; a fragment
\* with an empty transcript changes neither.
C21_TranscriptionOrder ==
  [][\A c \in 1..Len(recordings) :
       (/\ Len(recordings') = Len(recordings)
        /\ recordings'[c].heard = recordings[c].heard + 1
        /\ recordings'[c].last \in WellFormed)
       => LET name == recordings'[c].last
              t == TranscriptOf(name)
              acc == recordings[c].finalTranscript
          IN  IF t = <<>>
              THEN /\ recordings'[c].finalTranscript = acc
                   /\ inputText' = inputText
              ELSE IF IsFinalOf(name)
              THEN /\ recordings'[c].finalTranscript = acc \o t \o <<" ">>
                   /\ inputText' = acc \o t \o <<" ">>
              ELSE /\ recordings'[c].finalTranscript = acc
                   /\ inputText' = acc \o t]_vars

\* C21 witness: a final fragment and then an interim one were delivered,
\* and the input field shows the first, a space and the second
C21_Witness ==
  \E c \in 1..Len(recordings) :
    /\ recordings[c].heard = 2
    /\ recordings[c].last = "InterimB"
    /\ recordings[c].finalTranscript = <<"a", " ">>
    /\ inputText = <<"a", " ", "b">>

\* C26: recording state and resources agree.  Whenever isRecording is
\* false, no media recorder is recording and no microphone track is live.
C26_ResourcesReleased ==
  ~isRecording =>
    \A c \in 1..Len(recordings) :
      /\ recordings[c].recorder # "recording"
      /\ recordings[c].tracks # "live"

\* ------------------------------------------------------------ upload page

\* the files handed to handleFiles
MaxFiles == 3

\* the variables of the chat page, which the upload page leaves alone
chatPageVars == <<impl, pc, inputText, messages, isTyping, now, frames,
                  terminated, body, pos, utf8Lead, buffer, responseText,
                  citations, botMessageId, events, parsed, errors, view,
                  hoveredCitation, reqs, entered, voiceVars>>

\* { file, id, status: "uploading" }; the ids, random strings of nine
\* characters, are taken to differ
UploadedFile(id) == [id |-> id, status |-> "uploading"]

\* the callback of newFiles.forEach for the file id, at `await fetch(...)`;
\* answer is history: what the upload endpoint did with the request
NewUpload(id) == [id |-> id, pc |-> "fetch", answer |-> "none", body |-> <<>>]

\* prev.map((f) => f.id === uploadedFile.id ? { ...f, status } : f)
SetStatus(files, id, status) ==
  [k \in 1..Len(files) |->
     IF files[k].id = id THEN [files[k] EXCEPT !.status = status] ELSE files[k]]

\* handleFiles with n files, from handleDrop or handleFileInput
HandleFiles(n) ==
  /\ Len(uploads) + n <= MaxFiles
  /\ uploadedFiles' = uploadedFiles \o
       [k \in 1..n |-> UploadedFile(Len(uploads) + k)]
  /\ uploads' = uploads \o [k \in 1..n |-> NewUpload(Len(uploads) + k)]
  /\ UNCHANGED chatPageVars

\* the bodies of the answers of the upload endpoint
UploadBodies == {<<"{", "}">>, <<>>, <<"o", "k">>}

\* fetch resolves with an OK response: `await response.json()` is next
UploadOk(u, b) ==
  /\ uploads[u].pc = "fetch"
  /\ uploads' = [uploads EXCEPT ![u].pc = "json", ![u].answer = "ok",
                                ![u].body = Utf8Encode(b)]
  /\ UNCHANGED <<chatPageVars, uploadedFiles>>

\* response.json() settles: it resolves when the body is JSON, and the file
\* is a success; it rejects with a SyntaxError otherwise, which the catch
\* block, finding no TypeError, turns into an error
UploadJson(u) ==
  /\ uploads[u].pc = "json"
  /\ uploads' = [uploads EXCEPT ![u].pc = "settled"]
  /\ uploadedFiles' =
       SetStatus(uploadedFiles, uploads[u].id,
                 IF JSONparse(Utf8Decode(uploads[u].body, FALSE).out).ok
                 THEN "success" ELSE "error")
  /\ UNCHANGED chatPageVars

\* fetch resolves with a response that is not OK: the Error thrown is no
\* TypeError
UploadNotOk(u) ==
  /\ uploads[u].pc = "fetch"
  /\ uploads' = [uploads EXCEPT ![u].pc = "settled", ![u].answer = "not ok"]
  /\ uploadedFiles' = SetStatus(uploadedFiles, uploads[u].id, "error")
  /\ UNCHANGED chatPageVars

\* the messages of the TypeError of a fetch that got no response, as
\* browsers word them
FetchErrorMessages ==
  {<<"F", "a", "i", "l", "e", "d", " ", "t", "o", " ", "f", "e", "t", "c", "h">>,
   <<"L", "o", "a", "d", " ", "f", "a", "i", "l", "e", "d">>}

\* error instanceof TypeError && error.message.includes("fetch")
StatusAfterTypeError(message) ==
  IF Occurs(<<"f", "e", "t", "c", "h">>, message) THEN "success" ELSE "error"

\* fetch rejects: the request got no response
UploadFetchFail(u, message) ==
  /\ uploads[u].pc = "fetch"
  /\ uploads' = [uploads EXCEPT ![u].pc = "settled", ![u].answer = "failed"]
  /\ uploadedFiles' =
       SetStatus(uploadedFiles, uploads[u].id, StatusAfterTypeError(message))
  /\ UNCHANGED chatPageVars

\* removeFile(id)
RemoveFile(id) ==
  /\ \E k \in 1..Len(uploadedFiles) : uploadedFiles[k].id = id
  /\ uploadedFiles' = SelectSeq(uploadedFiles, LAMBDA f : f.id # id)
  /\ UNCHANGED <<chatPageVars, uploads>>

\* uploadedFiles.some((file) => file.status === "success")
StartChattingOffered ==
  \E k \in 1..Len(uploadedFiles) : uploadedFiles[k].status = "success"

NextUpload ==
  \/ \E n \in 1..2 : HandleFiles(n)
  \/ \E u \in 1..Len(uploads), b \in UploadBodies : UploadOk(u, b)
  \/ \E u \in 1..Len(uploads) : UploadJson(u)
  \/ \E u \in 1..Len(uploads) : UploadNotOk(u)
  \/ \E u \in 1..Len(uploads), message \in FetchErrorMessages :
       UploadFetchFail(u, message)
  \/ \E id \in 1..MaxFiles : RemoveFile(id)

SpecUpload == Init /\ [][NextUpload]_vars

\* the upload of the file at position k of the list
UploadOf(k) == uploads[uploadedFiles[k].id]

\* C22: the outcome of an upload depends on the HTTP status only.  Every
\* listed file whose upload the endpoint answered with an OK status, and
\* whose upload is settled, has status "success", whatever the body was.
C22_StatusDecides ==
  \A k \in 1..Len(uploadedFiles) :
    (UploadOf(k).answer = "ok" /\ UploadOf(k).pc = "settled")
      => uploadedFiles[k].status = "success"

\* C27: success is shown only for an upload that was answered OK.  Every
\* listed file with status "success" has an upload that the endpoint
\* answered with an OK status, so the link to the chat is offered only
\* then; and a status that is "success" or "error" does not change.
C27_SuccessMeansOk ==
  /\ [](\A k \in 1..Len(uploadedFiles) :
          uploadedFiles[k].status = "success" => UploadOf(k).answer = "ok")
  /\ [](StartChattingOffered =>
          \E u \in 1..Len(uploads) : uploads[u].answer = "ok")
  /\ [][\A k \in 1..Len(uploadedFiles), j \in 1..Len(uploadedFiles') :
          (uploadedFiles[k].id = uploadedFiles'[j].id
           /\ uploadedFiles[k].status # "uploading")
            => uploadedFiles'[j].status = uploadedFiles[k].status]_vars

\* ------------------------------------------------------------ further claims

\* call r of handleSendMessage has started and has not finished
InFlight(r) == reqs[r].pc \in {"fetch", "errtext", "read"}

\* C23: the typing indicator reflects in-flight work.  Whenever a call of
\* handleSendMessage has started and has not finished, isTyping is true.
C23_TypingWhileInFlight ==
  (\E r \in 1..Len(reqs) : InFlight(r)) => isTyping

\* the leaves that may be overdue: the pointer is over one marker at a time
MaxOverdue == 1

\* the pointer enters the marker at element j of message k
PointerEnter(k, j) ==
  /\ <<k, j>> \notin entered
  /\ Cardinality(entered) <= MaxOverdue
  /\ MouseEnter(k, j)
  /\ entered' = entered \cup {<<k, j>>}

\* the leave of the marker at element j of message k, which the pointer
\* had entered, is handled
PointerLeave(k, j) ==
  /\ <<k, j>> \in entered
  /\ MouseLeave(k, j)
  /\ entered' = entered \ {<<k, j>>}

NextHover ==
  \/ Mount
  \/ \E k \in 1..Len(view) : \E j \in 1..Len(view[k]) : PointerEnter(k, j)
  \/ \E k \in 1..Len(view) : \E j \in 1..Len(view[k]) : PointerLeave(k, j)

\* the page with its markers, the pointer moving from marker to marker
SpecHover == InitRender /\ [][NextHover]_vars

\* C24: a pointer-leave deactivates only the marker it belongs to.  When
\* the leave of a marker is handled while the key of another marker, which
\* the pointer entered later, is active, that key stays active and the
\* page shows its tooltip.
C24_LeaveOnlyOwnMarker ==
  [][\A k \in 1..Len(view) : \A j \in 1..Len(view[k]) :
       (/\ <<k, j>> \in entered
        /\ entered' = entered \ {<<k, j>>}
        /\ hoveredCitation # NoHover
        /\ view[k][j].hoverKey # hoveredCitation)
       => /\ hoveredCitation' = hoveredCitation
          /\ \E m \in entered' :
               /\ view'[m[1]][m[2]].hoverKey = hoveredCitation
               /\ view'[m[1]][m[2]].tooltip]_vars

\* C25: no complete frame is lost at the end of the stream.  When the
\* stream has ended and the last line of the body, which no newline
\* follows, is a frame with a text delta or a citation set, the text and
\* the citations of the bot message are those of the same body with the
\* newline added.
C25_LastFrameApplied ==
  (/\ pc = "done"
   /\ ~terminated
   /\ frames # <<>>
   /\ frames[Len(frames)] \in StringLines \cup RecordArrayLines)
  => LET whole == OneChunkRun(frames, TRUE) IN
     /\ Bot.text = whole.responseText
     /\ Bot.citations = whole.citations

====
